---- MODULE Spec2Model ----
(***************************************************************************)
(* Model of the polling engine of package util (wait.go): waitUntil and    *)
(* its typed wrappers WaitFor, WaitForNilError and WaitForReturn.          *)
(*                                                                         *)
(* One behaviour of the model is one call of one of the four functions.    *)
(* The goroutine running the poll, the runtime timer behind time.NewTimer  *)
(* and the owner of the context are three concurrent agents: the timer     *)
(* fires and the context is cancelled at any moment, also while the probe  *)
(* is running or between two statements of the poll.                       *)
(*                                                                         *)
(* FilesSpec is a call of WaitForFiles (file.go): the poll above with      *)
(* FilesExist as its probe, over a file system that other processes        *)
(* change while the poll runs.                                             *)
(*                                                                         *)
(* MaskSpec is the life of one MaskedString (string.go): built by          *)
(* NewMaskedString, its Config replaced by its owner, and rendered by      *)
(* String().  Strings are sequences of bytes.  JsonSpec adds MarshalJSON   *)
(* and UnmarshalJSON; LengthSpec is NewMaskedString over the lengths of    *)
(* its argument, with the float32 arithmetic of maskedStringLength.        *)
(*                                                                         *)
(* EnvSpec is lookupEnvBool over an environment that changes; StoreSpec    *)
(* is SaveStructToFile and LoadStructFromFile on one path, with the        *)
(* failures the operating system may answer.                               *)
(***************************************************************************)
EXTENDS Integers, Sequences, FiniteSets, TLC

\* Largest maxTries argument explored (0 .. MaxTriesBound).
MaxTriesBound == 3
\* Number of distinct non-nil values a probe can produce (0 stands for nil).
MaxVal == 2
\* Largest number of paths passed to WaitForFiles.
MaxFiles == 2
\* Longest underlying string of a MaskedString.
MaxLen == 3
\* Largest PrefixCount, SuffixCount and ObfuscatedLength of a Config.
MaxCount == 4
\* Largest MinMask of a Config.
MaxMinMask == 2
\* NewMaskedString is called with every length 0 .. MaxStrLen (and BigLens).
MaxStrLen == 20
\* Longest Name of the struct saved to a file.
MaxNameLen == 2

VARIABLES
    form,         \* which function was called
    maxTriesArg,  \* the maxTries argument as passed by the caller
    maxTries,     \* the local maxTries after normalisation
    tries,        \* the loop variable of waitUntil
    pc,           \* position of the polling goroutine
    timer,        \* state of the time.Timer created by waitUntil
    ctxErr,       \* ctx.Err(): NoErr while the context is not done
    calls,        \* raw results of the completed probe invocations, in order
    started,      \* number of probe invocations begun
    result,       \* the variable `result` captured by WaitForReturn's closure
    waits,        \* number of receives from timer.C (interval waits)
    ret,          \* which return statement of waitUntil was taken
    retErr,       \* the error returned by waitUntil
    out,          \* what the called function returned: [val, err]
    cancelAt,     \* where the poll stood when the context became done
    files,        \* the paths passed to WaitForFiles
    fs,           \* the paths that exist in the file system
    statIdx,      \* number of paths the running FilesExist has found
    statFailed,   \* the running FilesExist met a path that does not exist
    seenHist,     \* per completed attempt, the paths it found to exist
    ms,           \* the MaskedString: [str, cfg]
    shown,        \* the outcome of String() on ms since its Config was set
    wire,         \* what MarshalJSON returned for ms
    back,         \* the outcome of UnmarshalJSON on another MaskedString
    lenS,         \* len(s) of the string passed to NewMaskedString
    made,         \* the outcome of that NewMaskedString call
    env,          \* the environment: per key, its value or Unset
    looked,       \* the outcome of the last lookupEnvBool call
    path,         \* the filePath given to SaveStructToFile / LoadStructFromFile
    disk,         \* the content of the file at path, or NoFile
    saved,        \* the value of the last successful save since a failed one
    io            \* the outcome of the last save or load

pollVars == <<form, maxTriesArg, maxTries, tries, pc, timer, ctxErr, calls,
              started, result, waits, ret, retErr, out, cancelAt>>

fileVars == <<files, fs, statIdx, statFailed, seenHist>>

maskVars == <<ms, shown>>

jsonVars == <<wire, back>>

lengthVars == <<lenS, made>>

envVars == <<env, looked>>

storeVars == <<path, disk, saved, io>>

otherVars == <<lengthVars, envVars, storeVars>>

vars == <<pollVars, fileVars, maskVars, jsonVars, otherVars>>

----------------------------------------------------------------------------
(* Errors.  An error is the chain produced by Unwrap, outermost layer      *)
(* first; the nil error is the empty chain.                                *)

NoErr == <<>>

Layer(msg, n) == [msg |-> msg, n |-> n]

\* context.Canceled and context.DeadlineExceeded
Canceled == <<Layer("context canceled", 0)>>
DeadlineExceeded == <<Layer("context deadline exceeded", 0)>>
CtxReasons == {Canceled, DeadlineExceeded}

\* errors a probe may report
ProbeErrs == {<<Layer("not ready yet", 0)>>, <<Layer("test error", 0)>>}

\* fmt.Errorf without %w: the cause is formatted into the text and lost
ErrorfNoWrap(msg, n, err) == <<Layer(msg, n)>>

\* fmt.Errorf(msg, [n,] err) with the %w verb: a new layer around err
Errorf(msg, n, err) == <<Layer(msg, n)>> \o err

\* errors.Is(err, target): some suffix of the chain is the target
ErrorsIs(err, target) ==
    \E i \in 1..Len(err) : SubSeq(err, i, Len(err)) = target

----------------------------------------------------------------------------
(* The probes and the closures that adapt them to condition().             *)

Forms == {"waitUntil", "WaitFor", "WaitForNilError", "WaitForReturn"}

\* the paths WaitForFiles can be given: the first n of these, n <= MaxFiles
PathList == [i \in 1..MaxFiles |-> i]

\* the set of the given paths
FileSet == {files[i] : i \in 1..Len(files)}

\* fileExists: os.Stat(filename) returns a nil error
fileExists(p) == p \in fs

\* a FilesExist that is content with the paths found so far
FilesExistAny(n, failed) == n > 0

\* FilesExist: generics.Apply(fileExists, files) == nil, that is no call of
\* fileExists returned an error (true at once for no files)
FilesExistAll(n, failed) == ~failed

\* the result of the running FilesExist
FilesExistResult == FilesExistAll(statIdx, statFailed)

\* FilesExist has gone through its paths, up to the first missing one
StatDone == statFailed \/ statIdx = Len(files)

\* a WaitForFiles that polls also for no paths
NoFilesNever(f) == FALSE

\* if len(files) == 0
NoFiles(f) == Len(f) = 0

\* return fmt.Errorf("no files specified")
UsageError == <<Layer("no files specified", 0)>>

\* What a probe can return, by form.  ok: the boolean; val: the pointer
\* (0 is nil); err: the error.
RawResults(f) ==
    CASE f = "waitUntil"       -> [ok : BOOLEAN, val : {0}, err : {NoErr} \cup ProbeErrs]
      [] f = "WaitFor"         -> [ok : BOOLEAN, val : {0}, err : {NoErr}]
      [] f = "WaitForNilError" -> [ok : {FALSE}, val : {0}, err : {NoErr} \cup ProbeErrs]
      [] f = "WaitForReturn"   -> [ok : {FALSE}, val : 0..MaxVal, err : {NoErr} \cup ProbeErrs]
      [] f = "WaitForFiles"    -> {[ok |-> FilesExistResult, val |-> 0, err |-> NoErr]}

\* a closure that inverts the probe's answer
WaitForCondNeg(r) == [success |-> ~r.ok, err |-> NoErr]

\* WaitFor's closure: return op(), nil
WaitForCond(r) == [success |-> r.ok, err |-> NoErr]

\* a closure that propagates the probe's error instead of retrying
NilErrorCondStrict(r) == [success |-> r.err = NoErr, err |-> r.err]

\* WaitForNilError's closure
WaitForNilErrorCond(r) ==
    IF r.err # NoErr THEN [success |-> FALSE, err |-> NoErr]
                     ELSE [success |-> TRUE, err |-> NoErr]

\* WaitForReturn's closure (its assignment to result is in ProbeReturn)
WaitForReturnCond(r) ==
    IF r.err # NoErr THEN [success |-> FALSE, err |-> NoErr]
    ELSE IF r.val = 0 THEN [success |-> FALSE, err |-> NoErr]
    ELSE [success |-> TRUE, err |-> NoErr]

\* condition() as waitUntil sees it
Cond(f, r) ==
    CASE f = "waitUntil"       -> [success |-> r.ok, err |-> r.err]
      [] f = "WaitFor"         -> WaitForCond(r)
      [] f = "WaitForNilError" -> WaitForNilErrorCond(r)
      [] f = "WaitForReturn"   -> WaitForReturnCond(r)
      [] f = "WaitForFiles"    -> WaitForCond(r)

----------------------------------------------------------------------------
(* Pieces of waitUntil.                                                    *)

\* no normalisation of maxTries
NormalizeNone(m) == m

\* if maxTries == 0 { maxTries = 1 }
Normalize(m) == IF m = 0 THEN 1 ELSE m

\* a check that overlooks the condition's error
CondFailedNever(c) == FALSE

\* if err != nil, after each call of condition()
CondFailed(c) == c.err # NoErr

\* a loop that runs once too often
LoopCondLE(t, m) == t <= m

\* the loop condition: tries < maxTries
LoopCond(t, m) == t < m

\* a Reset that is forgotten: the timer stays as the receive left it
TimerResetNoop(t) == t

\* timer.Reset(interval)
TimerReset(t) == "armed"

\* a return without the deferred Stop
TimerStopNever(t) == t

\* the deferred timer.Stop(); no timer exists before line 37
TimerStop(t) == IF t = "none" THEN "none" ELSE "stopped"

\* return fmt.Errorf("waiting canceled: %w", ctx.Err())
CancelError(e) == Errorf("waiting canceled: %w", 0, e)

\* return fmt.Errorf("condition not met after %d tries", maxTries)
ExhaustionError(m) == <<Layer("condition not met after %d tries", m)>>

\* the error of a failed condition: first try, later tries
ConditionError(first, t, e) ==
    IF first THEN Errorf("condition failed with error: %w", 0, e)
             ELSE Errorf("condition failed with error on try %d: %w", t + 1, e)

\* a WaitForReturn that hands out the last value also on failure
WaitForReturnOutLeak(e, res) ==
    IF e # NoErr THEN [val |-> res, err |-> Errorf("failed to get result: %w", 0, e)]
                 ELSE [val |-> res, err |-> NoErr]

\* the tail of WaitForReturn
WaitForReturnOut(e, res) ==
    IF e # NoErr THEN [val |-> 0, err |-> Errorf("failed to get result: %w", 0, e)]
                 ELSE [val |-> res, err |-> NoErr]

\* what the called function hands to its caller
Output(f, e, res) ==
    IF f = "WaitForReturn" THEN WaitForReturnOut(e, res)
                           ELSE [val |-> 0, err |-> e]

\* a return statement of waitUntil, with the deferred Stop
Return(site, e, res) ==
    /\ pc' = "done"
    /\ ret' = site
    /\ retErr' = e
    /\ out' = Output(form, e, res)
    /\ timer' = TimerStop(timer)

----------------------------------------------------------------------------
(* The values of a MaskedString.                                           *)

\* the values of Config.Mask: unset, one byte, two bytes
Masks == {<<>>, <<"X">>, <<"X", "Y">>}

\* MaskedConfig
Configs ==
    [PrefixCount : 0..MaxCount, SuffixCount : 0..MaxCount, Mask : Masks,
     MinMask : 0..MaxMinMask, ObfuscateLength : BOOLEAN,
     ObfuscatedLength : 0..MaxCount]

\* the zero MaskedConfig
ZeroConfig ==
    [PrefixCount |-> 0, SuffixCount |-> 0, Mask |-> <<>>, MinMask |-> 0,
     ObfuscateLength |-> FALSE, ObfuscatedLength |-> 0]

\* var m MaskedString
ZeroMaskedString == [str |-> <<>>, cfg |-> ZeroConfig]

\* no String() call yet on the current Config
NotShown == [called |-> FALSE]

\* MarshalJSON has not been called / UnmarshalJSON has not been called
NoWire == [done |-> FALSE]

NoBack == [done |-> FALSE]

----------------------------------------------------------------------------
(* The values of the other parts of the package, and their state while a   *)
(* poll or a MaskedString is looked at.                                    *)

\* NewMaskedString has not been called
NotMade == [done |-> FALSE]

\* os.LookupEnv finds no variable of that name
Unset == "(unset)"

\* the keys of the tests of lookupEnvBool
EnvKeys == {"TEST_KEY", "TEST_NO_KEY"}

\* values of a variable: those strconv.ParseBool accepts, and others
EnvValues ==
    {"1", "t", "T", "TRUE", "true", "True", "0", "f", "F", "FALSE", "false",
     "False", "tRuE", "asdf", ""}

\* lookupEnvBool has not been called
NotLooked == [done |-> FALSE]

\* no file at the path
NoFile == [exists |-> FALSE]

\* no successful save to tell of
NoneSaved == [any |-> FALSE]

\* neither SaveStructToFile nor LoadStructFromFile has been called
NoIo == [op |-> "none"]

LengthIdle == lenS = 0 /\ made = NotMade

EnvIdle == env = [k \in EnvKeys |-> Unset] /\ looked = NotLooked

StoreIdle == path = <<>> /\ disk = NoFile /\ saved = NoneSaved /\ io = NoIo

OtherIdle == LengthIdle /\ EnvIdle /\ StoreIdle

----------------------------------------------------------------------------
Init ==
    /\ form \in Forms
    /\ maxTriesArg \in 0..MaxTriesBound
    /\ maxTries = maxTriesArg
    /\ tries = 0
    /\ pc = "start"
    /\ timer = "none"
    /\ ctxErr \in {NoErr} \cup CtxReasons
    /\ calls = <<>>
    /\ started = 0
    /\ result = 0
    /\ waits = 0
    /\ ret = "none"
    /\ retErr = NoErr
    /\ out = [val |-> 0, err |-> NoErr]
    /\ cancelAt = IF ctxErr = NoErr THEN [pc |-> "none", timer |-> "none", started |-> 0, more |-> FALSE]
                                    ELSE [pc |-> "start", timer |-> "none", started |-> 0, more |-> FALSE]
    /\ files = <<>>
    /\ fs = {}
    /\ statIdx = 0
    /\ statFailed = FALSE
    /\ seenHist = <<>>
    /\ ms = ZeroMaskedString
    /\ shown = NotShown
    /\ wire = NoWire
    /\ back = NoBack
    /\ OtherIdle

\* entry of waitUntil: the normalisation of maxTries
Call ==
    /\ pc = "start"
    /\ maxTries' = Normalize(maxTriesArg)
    /\ pc' = "probe"
    /\ UNCHANGED <<form, maxTriesArg, tries, timer, ctxErr, calls, started,
                   result, waits, ret, retErr, out, cancelAt>>
    /\ UNCHANGED fileVars
    /\ UNCHANGED <<maskVars, jsonVars, otherVars>>

\* condition() is called
ProbeInvoke ==
    /\ pc = "probe"
    /\ pc' = "inProbe"
    /\ started' = started + 1
    /\ statIdx' = 0
    /\ statFailed' = FALSE
    /\ UNCHANGED <<form, maxTriesArg, maxTries, tries, timer, ctxErr, calls,
                   result, waits, ret, retErr, out, cancelAt>>
    /\ UNCHANGED <<files, fs, seenHist>>
    /\ UNCHANGED <<maskVars, jsonVars, otherVars>>

\* condition() returns r; waitUntil goes on to its next blocking point
ProbeReturn ==
    /\ pc = "inProbe"
    /\ form = "WaitForFiles" => StatDone
    /\ seenHist' = IF form = "WaitForFiles"
                     THEN Append(seenHist, {files[i] : i \in 1..statIdx})
                     ELSE seenHist
    /\ UNCHANGED <<files, fs, statIdx, statFailed>>
    /\ \E r \in RawResults(form) :
         LET c == Cond(form, r)
             first == calls = <<>>
             res == IF form = "WaitForReturn" THEN r.val ELSE result
         IN  /\ calls' = Append(calls, r)
             /\ result' = res
             /\ IF CondFailed(c)
                  THEN /\ Return("conditionError", ConditionError(first, tries, c.err), res)
                       /\ UNCHANGED tries
                  ELSE IF c.success
                  THEN /\ Return("success", NoErr, res)
                       /\ UNCHANGED tries
                  ELSE /\ timer' = IF first THEN "armed" ELSE TimerReset(timer)
                       /\ tries' = tries + 1
                       /\ pc' = "loop"
                       /\ UNCHANGED <<ret, retErr, out>>
    /\ UNCHANGED <<form, maxTriesArg, maxTries, ctxErr, started, waits, cancelAt>>
    /\ UNCHANGED <<maskVars, jsonVars, otherVars>>

\* the loop condition fails: the exhaustion return
LoopExit ==
    /\ pc = "loop"
    /\ ~LoopCond(tries, maxTries)
    /\ Return("exhausted", ExhaustionError(maxTries), result)
    /\ UNCHANGED <<form, maxTriesArg, maxTries, tries, ctxErr, calls, started,
                   result, waits, cancelAt>>
    /\ UNCHANGED fileVars
    /\ UNCHANGED <<maskVars, jsonVars, otherVars>>

\* select finds ctx.Done() ready
SelectCancel ==
    /\ pc = "loop"
    /\ LoopCond(tries, maxTries)
    /\ ctxErr # NoErr
    /\ Return("canceled", CancelError(ctxErr), result)
    /\ UNCHANGED <<form, maxTriesArg, maxTries, tries, ctxErr, calls, started,
                   result, waits, cancelAt>>
    /\ UNCHANGED fileVars
    /\ UNCHANGED <<maskVars, jsonVars, otherVars>>

\* select finds timer.C ready
SelectTimer ==
    /\ pc = "loop"
    /\ LoopCond(tries, maxTries)
    /\ timer = "fired"
    /\ timer' = "idle"
    /\ waits' = waits + 1
    /\ pc' = "probe"
    /\ UNCHANGED <<form, maxTriesArg, maxTries, tries, ctxErr, calls, started,
                   result, ret, retErr, out, cancelAt>>
    /\ UNCHANGED fileVars
    /\ UNCHANGED <<maskVars, jsonVars, otherVars>>

\* select finds no case ready and parks the goroutine on both channels
SelectPark ==
    /\ pc = "loop"
    /\ LoopCond(tries, maxTries)
    /\ ctxErr = NoErr
    /\ timer # "fired"
    /\ pc' = "parked"
    /\ UNCHANGED <<form, maxTriesArg, maxTries, tries, timer, ctxErr, calls,
                   started, result, waits, ret, retErr, out, cancelAt>>
    /\ UNCHANGED fileVars
    /\ UNCHANGED <<maskVars, jsonVars, otherVars>>

\* the goroutine was woken by the close of ctx.Done()
ReturnCanceled ==
    /\ pc = "canceled"
    /\ Return("canceled", CancelError(ctxErr), result)
    /\ UNCHANGED <<form, maxTriesArg, maxTries, tries, ctxErr, calls, started,
                   result, waits, cancelAt>>
    /\ UNCHANGED fileVars
    /\ UNCHANGED <<maskVars, jsonVars, otherVars>>

\* the runtime timer expires: a parked receiver gets the value at once
TimerFire ==
    /\ timer = "armed"
    /\ IF pc = "parked"
         THEN /\ timer' = "idle"
              /\ waits' = waits + 1
              /\ pc' = "probe"
         ELSE /\ timer' = "fired"
              /\ UNCHANGED <<waits, pc>>
    /\ UNCHANGED <<form, maxTriesArg, maxTries, tries, ctxErr, calls, started,
                   result, ret, retErr, out, cancelAt>>
    /\ UNCHANGED fileVars
    /\ UNCHANGED <<maskVars, jsonVars, otherVars>>

\* the owner of the context cancels it, or its deadline passes
Cancel ==
    /\ ctxErr = NoErr
    /\ \E reason \in CtxReasons : ctxErr' = reason
    /\ pc' = IF pc = "parked" THEN "canceled" ELSE pc
    /\ cancelAt' = [pc |-> pc, timer |-> timer, started |-> started,
                    more |-> LoopCond(tries, maxTries)]
    /\ UNCHANGED <<form, maxTriesArg, maxTries, tries, timer, calls, started,
                   result, waits, ret, retErr, out>>
    /\ UNCHANGED fileVars
    /\ UNCHANGED <<maskVars, jsonVars, otherVars>>

Next ==
    \/ Call
    \/ ProbeInvoke
    \/ ProbeReturn
    \/ LoopExit
    \/ SelectCancel
    \/ SelectTimer
    \/ SelectPark
    \/ ReturnCanceled
    \/ TimerFire
    \/ Cancel

Spec == Init /\ [][Next]_vars

\* Each step of the polling goroutine is taken, each probe invocation
\* returns and each armed timer fires.
PollStep ==
    \/ Call
    \/ ProbeInvoke
    \/ ProbeReturn
    \/ LoopExit
    \/ SelectCancel
    \/ SelectTimer
    \/ SelectPark
    \/ ReturnCanceled

FairSpec == Spec /\ WF_vars(PollStep) /\ WF_vars(TimerFire)

----------------------------------------------------------------------------
(* WaitForFiles.                                                           *)

FilesInit ==
    /\ form = "WaitForFiles"
    /\ maxTriesArg \in 0..MaxTriesBound
    /\ maxTries = maxTriesArg
    /\ tries = 0
    /\ pc = "filesStart"
    /\ timer = "none"
    /\ ctxErr \in {NoErr} \cup CtxReasons
    /\ calls = <<>>
    /\ started = 0
    /\ result = 0
    /\ waits = 0
    /\ ret = "none"
    /\ retErr = NoErr
    /\ out = [val |-> 0, err |-> NoErr]
    /\ cancelAt = IF ctxErr = NoErr THEN [pc |-> "none", timer |-> "none", started |-> 0, more |-> FALSE]
                                    ELSE [pc |-> "start", timer |-> "none", started |-> 0, more |-> FALSE]
    /\ \E n \in 0..MaxFiles : files = SubSeq(PathList, 1, n)
    /\ fs \in SUBSET FileSet
    /\ statIdx = 0
    /\ statFailed = FALSE
    /\ seenHist = <<>>
    /\ ms = ZeroMaskedString
    /\ shown = NotShown
    /\ wire = NoWire
    /\ back = NoBack
    /\ OtherIdle

\* entry of WaitForFiles: the usage error for no paths, else WaitFor
WaitForFilesCall ==
    /\ pc = "filesStart"
    /\ IF NoFiles(files)
         THEN /\ pc' = "done"
              /\ ret' = "usage"
              /\ out' = [val |-> 0, err |-> UsageError]
         ELSE /\ pc' = "start"
              /\ UNCHANGED <<ret, out>>
    /\ UNCHANGED <<form, maxTriesArg, maxTries, tries, timer, ctxErr, calls,
                   started, result, waits, retErr, cancelAt>>
    /\ UNCHANGED fileVars
    /\ UNCHANGED <<maskVars, jsonVars, otherVars>>

\* FilesExist asks for its next path
Stat ==
    /\ pc = "inProbe"
    /\ form = "WaitForFiles"
    /\ ~StatDone
    /\ IF fileExists(files[statIdx + 1])
         THEN /\ statIdx' = statIdx + 1
              /\ UNCHANGED statFailed
         ELSE /\ statFailed' = TRUE
              /\ UNCHANGED statIdx
    /\ UNCHANGED <<files, fs, seenHist>>
    /\ UNCHANGED pollVars
    /\ UNCHANGED <<maskVars, jsonVars, otherVars>>

\* another process creates or removes one of the paths
FsChange ==
    /\ pc # "done"
    /\ \E p \in FileSet : fs' = IF p \in fs THEN fs \ {p} ELSE fs \cup {p}
    /\ UNCHANGED <<files, statIdx, statFailed, seenHist>>
    /\ UNCHANGED pollVars
    /\ UNCHANGED <<maskVars, jsonVars, otherVars>>

FilesNext ==
    \/ WaitForFilesCall
    \/ Stat
    \/ FsChange
    \/ Next

FilesSpec == FilesInit /\ [][FilesNext]_vars

----------------------------------------------------------------------------
(* MaskedString.                                                           *)

\* the bytes of the underlying strings
Letters == {"t", "e"}

\* the strings of at most n bytes over the alphabet A
StringsOf(A, n) == UNION {[1..k -> A] : k \in 0..n}

\* uint arithmetic is modulo 2^w; w is 16 here, for 64 in the build
UintMod == 65536

\* a + b in uint
UAdd(a, b) == (a + b) % UintMod

\* a - b in uint
USub(a, b) == (a - b + UintMod) % UintMod

\* int(u) for a uint u
ToInt(u) == IF u >= UintMod \div 2 THEN u - UintMod ELSE u

\* a length that is the true length whatever the Config says
EffectiveLengthTrue(m) == Len(m.str)

\* effectiveLength
EffectiveLength(m) ==
    IF m.cfg.ObfuscateLength THEN m.cfg.ObfuscatedLength ELSE Len(m.str)

\* a validation that caps the count at the effective length
ClampToEff(c, eff) == IF c > eff THEN eff ELSE c

\* if prefixCount > effectiveLength { prefixCount = 0 }, same for suffix
Clamp(c, eff) == IF c > eff THEN 0 ELSE c

\* a floor that is never applied
MinMaskNever(minMask, charsToMask) == FALSE

\* s.Config.MinMask > 0 && s.Config.MinMask > charsToMask
MinMaskApplies(minMask, charsToMask) == minMask > 0 /\ minMask > charsToMask

\* a guard that lets the whole string through
ShowsAllGT(total, n) == total > n

\* totalUnmasked >= uint(len(s.string))
ShowsAll(total, n) == total >= n

\* a mask that ignores Config.Mask
MaskCharStar(mask) == <<"*">>

\* maskChar
MaskChar(mask) == IF mask # <<>> THEN mask ELSE <<"*">>

\* strings.Repeat(s, n) for n >= 0
Repeat(s, n) == [i \in 1..(n * Len(s)) |-> s[((i - 1) % Len(s)) + 1]]

\* a suffix taken from the front of the string
SuffixOfHead(str, n) == SubSeq(str, 1, n)

\* s.string[len(s.string)-int(suffixCount):]
SuffixOf(str, n) == SubSeq(str, Len(str) - n + 1, Len(str))

\* String(): its locals, whether it panics, and the string it returns
String(m) ==
    LET n == Len(m.str)
        effectiveLength == EffectiveLength(m)
        prefix0 == Clamp(m.cfg.PrefixCount, effectiveLength)
        suffix0 == Clamp(m.cfg.SuffixCount, effectiveLength)
        totalUnmasked == UAdd(prefix0, suffix0)
        charsToMask == USub(effectiveLength, totalUnmasked)
        reset == \/ MinMaskApplies(m.cfg.MinMask, charsToMask)
                 \/ ShowsAll(totalUnmasked, n)
        prefixCount == IF reset THEN 0 ELSE prefix0
        suffixCount == IF reset THEN 0 ELSE suffix0
        slicePanic == prefixCount > n \/ suffixCount > n
        prefix == IF prefixCount > 0 /\ ~slicePanic THEN SubSeq(m.str, 1, prefixCount) ELSE <<>>
        suffix == IF suffixCount > 0 /\ ~slicePanic THEN SuffixOf(m.str, suffixCount) ELSE <<>>
        paddingCount == USub(effectiveLength, UAdd(prefixCount, suffixCount))
        repeatPanic == ToInt(paddingCount) < 0
        panic == slicePanic \/ repeatPanic
    IN  [called |-> TRUE,
         panic |-> panic,
         str |-> IF panic THEN <<>>
                 ELSE prefix \o Repeat(MaskChar(m.cfg.Mask), ToInt(paddingCount)) \o suffix,
         totalUnmasked |-> totalUnmasked,
         charsToMask |-> charsToMask,
         prefixCount |-> prefixCount,
         suffixCount |-> suffixCount,
         paddingCount |-> paddingCount]

\* a String() that writes its validated counts back into the Config
StringWritesBack(m) ==
    [m EXCEPT !.cfg.PrefixCount = String(m).prefixCount,
              !.cfg.SuffixCount = String(m).suffixCount]

\* what String() leaves of *s: it only reads
AfterString(m) == m

\* UnmaskedString()
UnmaskedString(m) == m.str

\* a length drawn from the true length alone
MaskedStringLengthsExact(n) == {n}

\* float32 has a significand of 24 bits.  A value is held here as a count
\* of halves h; F32Ulp(h) is the spacing, in halves, of the float32 values
\* around it.
F32Ulp(h) ==
    IF h < 16777216 THEN 1
    ELSE IF h < 33554432 THEN 2
    ELSE IF h < 67108864 THEN 4
    ELSE 8

\* rounding to the nearest float32, ties to the even significand
F32Round(h) ==
    LET u == F32Ulp(h)
        q == h \div u
        r == h % u
    IN  IF 2 * r < u THEN q * u
        ELSE IF 2 * r > u THEN (q + 1) * u
        ELSE IF q % 2 = 0 THEN q * u
        ELSE (q + 1) * u

\* float32(len(s)), in halves
Float32(n) == F32Round(2 * n)

\* 1.5 * x on float32, x a whole number given in halves; in halves
F32Times1p5(x) == F32Round(3 * (x \div 2))

\* int(x): truncation
F32ToInt(x) == x \div 2

\* the bound passed to rand.Int without the floor of 8
BaseLengthNoFloor(n) == F32ToInt(F32Times1p5(Float32(n)))

\* baseLength := int(1.5 * float32(len(s))), 8 if that is 0
BaseLength(n) ==
    LET baseLength == F32ToInt(F32Times1p5(Float32(n)))
    IN  IF baseLength = 0 THEN 8 ELSE baseLength

\* rand.Int panics if max <= 0
RandIntPanics(max) == max <= 0

\* the values rand.Int(rand.Reader, max) may give: all of 0 .. max-1 for
\* the lengths explored exhaustively, the least, the middle and the
\* greatest of them for the long strings
RandInts(max) ==
    IF max <= 2 * MaxStrLen THEN 0..(max - 1)
    ELSE {0, max \div 2, max - 1}

\* maskedStringLength: rand.Int below baseLength, or baseLength / 2
MaskedStringLengths(n) ==
    LET baseLength == BaseLength(n)
    IN  RandInts(baseLength) \cup {baseLength \div 2}

\* NewMaskedString(s), its random length being l
NewMaskedString(s, l) ==
    [str |-> s,
     cfg |-> [ZeroConfig EXCEPT !.ObfuscateLength = TRUE, !.ObfuscatedLength = l]]

MaskInit ==
    /\ \E s \in StringsOf(Letters, MaxLen) :
         \E l \in MaskedStringLengths(Len(s)) : ms = NewMaskedString(s, l)
    /\ shown = NotShown
    /\ wire = NoWire
    /\ back = NoBack
    /\ OtherIdle
    /\ form = "none"
    /\ maxTriesArg = 0
    /\ maxTries = 0
    /\ tries = 0
    /\ pc = "masked"
    /\ timer = "none"
    /\ ctxErr = NoErr
    /\ calls = <<>>
    /\ started = 0
    /\ result = 0
    /\ waits = 0
    /\ ret = "none"
    /\ retErr = NoErr
    /\ out = [val |-> 0, err |-> NoErr]
    /\ cancelAt = [pc |-> "none", timer |-> "none", started |-> 0, more |-> FALSE]
    /\ files = <<>>
    /\ fs = {}
    /\ statIdx = 0
    /\ statFailed = FALSE
    /\ seenHist = <<>>

\* the Configs that differ from c in at most one field
OneFieldSet(c) ==
    {[c EXCEPT !.PrefixCount = v] : v \in 0..MaxCount}
    \cup {[c EXCEPT !.SuffixCount = v] : v \in 0..MaxCount}
    \cup {[c EXCEPT !.Mask = v] : v \in Masks}
    \cup {[c EXCEPT !.MinMask = v] : v \in 0..MaxMinMask}
    \cup {[c EXCEPT !.ObfuscateLength = v] : v \in BOOLEAN}
    \cup {[c EXCEPT !.ObfuscatedLength = v] : v \in 0..MaxCount}

\* s.Config.X = v: the owner sets a field of the Config; s.Config = cfg
\* is a run of such steps
SetConfig ==
    /\ pc = "masked"
    /\ \E c \in OneFieldSet(ms.cfg) : ms' = [ms EXCEPT !.cfg = c]
    /\ shown' = NotShown
    /\ UNCHANGED <<pollVars, fileVars, jsonVars, otherVars>>

\* s.String()
CallString ==
    /\ pc = "masked"
    /\ shown' = String(ms)
    /\ ms' = AfterString(ms)
    /\ UNCHANGED <<pollVars, fileVars, jsonVars, otherVars>>

MaskNext ==
    \/ SetConfig
    \/ CallString

MaskSpec == MaskInit /\ [][MaskNext]_vars

----------------------------------------------------------------------------
TypeOK ==
    /\ form \in Forms \cup {"WaitForFiles", "none"}
    /\ maxTriesArg \in 0..MaxTriesBound
    /\ pc \in {"masked", "filesStart", "length", "env", "store", "start", "probe", "inProbe", "loop", "parked", "canceled", "done"}
    /\ timer \in {"none", "armed", "fired", "idle", "stopped"}
    /\ ctxErr \in {NoErr} \cup CtxReasons
    /\ ret \in {"none", "usage", "success", "conditionError", "canceled", "exhausted"}
    /\ result \in 0..MaxVal
----------------------------------------------------------------------------
(* The other parts at rest.                                                *)

\* no poll is running; p says which part of the package is in use
PollIdle(p) ==
    /\ form = "none"
    /\ maxTriesArg = 0
    /\ maxTries = 0
    /\ tries = 0
    /\ pc = p
    /\ timer = "none"
    /\ ctxErr = NoErr
    /\ calls = <<>>
    /\ started = 0
    /\ result = 0
    /\ waits = 0
    /\ ret = "none"
    /\ retErr = NoErr
    /\ out = [val |-> 0, err |-> NoErr]
    /\ cancelAt = [pc |-> "none", timer |-> "none", started |-> 0, more |-> FALSE]

FilesIdle ==
    /\ files = <<>>
    /\ fs = {}
    /\ statIdx = 0
    /\ statFailed = FALSE
    /\ seenHist = <<>>

MaskIdle == ms = ZeroMaskedString /\ shown = NotShown

JsonIdle == wire = NoWire /\ back = NoBack

----------------------------------------------------------------------------
(* NewMaskedString over the lengths of its argument.  maskedStringLength   *)
(* reads len(s) only, so the argument is given by its length, which lets   *)
(* the strings be long enough for float32 to round.                        *)

\* lengths around the first ones at which 1.5 * float32(len(s)) is not
\* exact (2^23 / 1.5), and above 2^24, where float32(len(s)) is not
BigLens == {5592404, 5592405, 5592407, 5592409, 16777217, 16777219}

LengthInit ==
    /\ lenS \in (0..MaxStrLen) \cup BigLens
    /\ made = NotMade
    /\ PollIdle("length")
    /\ FilesIdle
    /\ MaskIdle
    /\ JsonIdle
    /\ EnvIdle
    /\ StoreIdle

\* m := NewMaskedString(s); the Config does not depend on the bytes of s
CallNewMaskedString ==
    /\ pc = "length"
    /\ ~made.done
    /\ IF RandIntPanics(BaseLength(lenS))
         THEN made' = [done |-> TRUE, panic |-> TRUE, cfg |-> ZeroConfig]
         ELSE \E l \in MaskedStringLengths(lenS) :
                made' = [done |-> TRUE, panic |-> FALSE,
                         cfg |-> NewMaskedString(<<>>, l).cfg]
    /\ UNCHANGED <<lenS, pollVars, fileVars, maskVars, jsonVars, envVars, storeVars>>

LengthNext == CallNewMaskedString

LengthSpec == LengthInit /\ [][LengthNext]_vars

----------------------------------------------------------------------------
(* lookupEnvBool over an environment that is set and unset around it.      *)

\* strings.ToLower(value) == "true", the test of the older lookupEnvBool
ParseBoolToLower(v) ==
    [val |-> v \in {"true", "TRUE", "True", "tRuE"}, err |-> FALSE]

\* strconv.ParseBool
ParseBool(v) ==
    IF v \in {"1", "t", "T", "TRUE", "true", "True"} THEN [val |-> TRUE, err |-> FALSE]
    ELSE IF v \in {"0", "f", "F", "FALSE", "false", "False"} THEN [val |-> FALSE, err |-> FALSE]
    ELSE [val |-> FALSE, err |-> TRUE]

\* lookup(key): os.LookupEnv or the mock of the tests
lookup(e, key) == [value |-> e[key], ok |-> e[key] # Unset]

\* lookupEnvBool(lookup, key): the value and whether an error is returned
lookupEnvBool(e, key) ==
    LET l == lookup(e, key)
    IN  IF ~l.ok THEN [val |-> FALSE, err |-> TRUE]
        ELSE IF ParseBool(l.value).err THEN [val |-> FALSE, err |-> TRUE]
        ELSE [val |-> ParseBool(l.value).val, err |-> FALSE]

EnvInit ==
    /\ env \in [EnvKeys -> EnvValues \cup {Unset}]
    /\ looked = NotLooked
    /\ PollIdle("env")
    /\ FilesIdle
    /\ MaskIdle
    /\ JsonIdle
    /\ LengthIdle
    /\ StoreIdle

\* os.Setenv(k, v)
Setenv ==
    /\ pc = "env"
    /\ \E k \in EnvKeys, v \in EnvValues : env' = [env EXCEPT ![k] = v]
    /\ UNCHANGED <<looked, pollVars, fileVars, maskVars, jsonVars, lengthVars, storeVars>>

\* os.Unsetenv(k)
Unsetenv ==
    /\ pc = "env"
    /\ \E k \in EnvKeys : env' = [env EXCEPT ![k] = Unset]
    /\ UNCHANGED <<looked, pollVars, fileVars, maskVars, jsonVars, lengthVars, storeVars>>

\* LookupEnvBool(key)
CallLookupEnvBool ==
    /\ pc = "env"
    /\ \E k \in EnvKeys :
          looked' = [done |-> TRUE, key |-> k, seen |-> env[k],
                     val |-> lookupEnvBool(env, k).val,
                     err |-> lookupEnvBool(env, k).err]
    /\ UNCHANGED <<env, pollVars, fileVars, maskVars, jsonVars, lengthVars, storeVars>>

EnvNext == Setenv \/ Unsetenv \/ CallLookupEnvBool

EnvSpec == EnvInit /\ [][EnvNext]_vars

----------------------------------------------------------------------------
(* The properties of the poll.                                             *)

\* the try count the poll is entitled to: maxTries, or 1 when it is 0
EffMax == IF maxTriesArg = 0 THEN 1 ELSE maxTriesArg

\* the Kth probe invocation is the first to report success, and no
\* invocation up to it reported an error
FirstSuccessAt(K) ==
    /\ K \in 1..Len(calls)
    /\ calls[K].ok
    /\ \A i \in 1..K : calls[i].err = NoErr
    /\ \A i \in 1..(K - 1) : ~calls[i].ok

\* C1: in waitUntil and WaitFor, once the probe has reported its first
\* success, on invocation K and without any error, the poll has returned
\* success after exactly K invocations and K-1 interval waits, and the
\* probe is not invoked again.
C1_SuccessOnKth ==
    form \in {"waitUntil", "WaitFor"} =>
        \A K \in 1..Len(calls) :
            FirstSuccessAt(K) =>
                /\ pc = "done"
                /\ ret = "success"
                /\ out.err = NoErr
                /\ Len(calls) = K
                /\ started = K
                /\ waits = K - 1

C1_Witness ==
    /\ form = "WaitFor"
    /\ pc = "done"
    /\ ctxErr = NoErr
    /\ FirstSuccessAt(3)
    /\ waits = 2

\* no completed invocation reported success or an error
NeverMet ==
    \A i \in 1..Len(calls) :
        /\ ~Cond(form, calls[i]).success
        /\ Cond(form, calls[i]).err = NoErr

\* C2: a poll whose condition never reported success nor an error and that
\* was not cancelled returns "condition not met after N tries" after
\* exactly N invocations, N being maxTries, or 1 when maxTries is 0.
C2_Exhaustion ==
    (pc = "done" /\ ctxErr = NoErr /\ NeverMet) =>
        /\ ret = "exhausted"
        /\ retErr = <<Layer("condition not met after %d tries", EffMax)>>
        /\ out.err # NoErr
        /\ Len(calls) = EffMax
        /\ started = EffMax

C2_Witness ==
    /\ pc = "done"
    /\ ctxErr = NoErr
    /\ NeverMet
    /\ maxTriesArg = 3
    /\ Len(calls) = 3

\* the context became done during an interval: the timer was armed and had
\* not fired, and a further attempt was due when it would
CancelledInInterval ==
    /\ cancelAt.pc \in {"loop", "parked"}
    /\ cancelAt.timer = "armed"
    /\ cancelAt.more

\* C3: when the context becomes done before the current interval elapses,
\* the probe is not invoked again and the poll returns the cancellation
\* error.
C3_NoProbeAfterCancel ==
    CancelledInInterval =>
        /\ started = cancelAt.started
        /\ pc = "done" => ret = "canceled"

\* the outcome of a poll of one attempt whose probe returned r
SingleOutcome(r) ==
    LET c == Cond(form, r)
    IN  IF c.err # NoErr THEN <<Layer("condition failed with error: %w", 0)>> \o c.err
        ELSE IF c.success THEN NoErr
        ELSE <<Layer("condition not met after %d tries", 1)>>

\* C4: a poll called with maxTries 0 and a poll called with maxTries 1 have
\* the same outcome, a function of the one probe result alone: one
\* invocation, no interval wait, and success, the probe's error or the
\* exhaustion error of 1 try, whatever the state of the context.
C4_ZeroIsOne ==
    (pc = "done" /\ maxTriesArg \in {0, 1}) =>
        /\ Len(calls) = 1
        /\ started = 1
        /\ waits = 0
        /\ retErr = SingleOutcome(calls[1])
        /\ out = Output(form, SingleOutcome(calls[1]), calls[1].val)

C4_Witness ==
    /\ pc = "done"
    /\ maxTriesArg = 0
    /\ ctxErr # NoErr
    /\ ret = "exhausted"

\* C5: a poll never makes more probe invocations than maxTries (1 when it
\* is 0), and its first invocation is complete before it creates the
\* timer, waits an interval or looks at the context.
C5_AtMostMaxTries ==
    /\ started <= EffMax
    /\ (\/ timer # "none"
        \/ waits > 0
        \/ pc \in {"loop", "parked", "canceled"}
        \/ ret \in {"canceled", "exhausted"}) => Len(calls) >= 1

C5_Witness ==
    /\ maxTriesArg = 2
    /\ started = 2
    /\ pc = "done"
    /\ ret = "exhausted"
    /\ waits = 1
\* C6: under FairSpec, where every step of the poll is taken, every probe
\* invocation returns and every armed timer fires, each poll returns.
C6_Terminates == <>(pc = "done")

C6_Witness ==
    /\ pc = "done"
    /\ ret = "exhausted"
    /\ maxTriesArg = 3
    /\ waits = 2
    /\ ctxErr = NoErr

\* some layer of the error is the exhaustion error
IsExhaustion(e) ==
    \E i \in 1..Len(e) : e[i].msg = "condition not met after %d tries"

\* C7: the error of a poll that returned because the context was done
\* satisfies errors.Is for the context's own reason and for no other
\* reason, also as returned by WaitForReturn, and is not the exhaustion
\* error.
C7_CancelReasonKept ==
    (pc = "done" /\ ret = "canceled") =>
        /\ ctxErr \in CtxReasons
        /\ ErrorsIs(retErr, ctxErr)
        /\ ErrorsIs(out.err, ctxErr)
        /\ \A other \in CtxReasons \ {ctxErr} : ~ErrorsIs(out.err, other)
        /\ ~IsExhaustion(out.err)

C7_Witness ==
    /\ pc = "done"
    /\ ret = "canceled"
    /\ form = "WaitForReturn"
    /\ ctxErr = DeadlineExceeded
    /\ Len(out.err) = 3

\* C8: in waitUntil, a condition that reported an error on attempt i, the
\* first or a later one, was not invoked again: the poll has returned that
\* error, wrapped, whatever the number of tries left.
C8_ConditionErrorAborts ==
    form = "waitUntil" =>
        \A i \in 1..Len(calls) :
            calls[i].err # NoErr =>
                /\ i = Len(calls)
                /\ started = i
                /\ pc = "done"
                /\ ret = "conditionError"
                /\ Len(retErr) = 2
                /\ retErr[1].msg = IF i = 1 THEN "condition failed with error: %w"
                                            ELSE "condition failed with error on try %d: %w"
                /\ i > 1 => retErr[1].n = i
                /\ ErrorsIs(retErr, calls[i].err)
                /\ out.err = retErr

C8_Witness ==
    /\ form = "waitUntil"
    /\ maxTriesArg = 3
    /\ Len(calls) = 2
    /\ calls[2].err # NoErr
    /\ pc = "done"

\* C9: in WaitForNilError a probe error neither ends the poll nor reaches
\* the caller: the poll returns success exactly at the first attempt whose
\* error is nil, and when all attempts of an uncancelled poll returned an
\* error it returns the exhaustion error after exactly maxTries attempts.
C9_NilErrorRetries ==
    form = "WaitForNilError" =>
        /\ ret # "conditionError"
        /\ \A e \in ProbeErrs : ~ErrorsIs(out.err, e)
        /\ \A i \in 1..Len(calls) :
              IF calls[i].err = NoErr
                THEN /\ i = Len(calls)
                     /\ pc = "done"
                     /\ ret = "success"
                     /\ out.err = NoErr
                ELSE /\ pc = "done" => (i < Len(calls) \/ ret \in {"canceled", "exhausted"})
        /\ (pc = "done" /\ ctxErr = NoErr /\ \A i \in 1..Len(calls) : calls[i].err # NoErr) =>
              /\ out.err = <<Layer("condition not met after %d tries", EffMax)>>
              /\ Len(calls) = EffMax

C9_Witness ==
    /\ form = "WaitForNilError"
    /\ pc = "done"
    /\ Len(calls) = 3
    /\ calls[1].err # NoErr
    /\ calls[2].err # NoErr
    /\ calls[3].err = NoErr

C9_WitnessExhausted ==
    /\ form = "WaitForNilError"
    /\ pc = "done"
    /\ ret = "exhausted"
    /\ Len(calls) = 3
    /\ \A i \in 1..3 : calls[i].err # NoErr

\* C10: in WaitForReturn an attempt ends the poll with success exactly when
\* it returned a non-nil value and a nil error, and the poll then returns
\* that attempt's value; every other attempt is retried, and a poll that
\* fails returns a nil value whatever the earlier attempts produced.
C10_ReturnValue ==
    form = "WaitForReturn" =>
        /\ ret # "conditionError"
        /\ \A i \in 1..Len(calls) :
              IF calls[i].val # 0 /\ calls[i].err = NoErr
                THEN /\ i = Len(calls)
                     /\ pc = "done"
                     /\ ret = "success"
                     /\ out = [val |-> calls[i].val, err |-> NoErr]
                ELSE /\ pc = "done" => (i < Len(calls) \/ ret \in {"canceled", "exhausted"})
        /\ (pc = "done" /\ ret # "success") =>
              /\ out.val = 0
              /\ out.err # NoErr

C10_Witness ==
    /\ form = "WaitForReturn"
    /\ pc = "done"
    /\ ret \in {"canceled", "exhausted"}
    /\ \E i \in 1..Len(calls) : calls[i].val # 0 /\ calls[i].err # NoErr
    /\ result # 0
    /\ out.val = 0

C10_WitnessSuccess ==
    /\ form = "WaitForReturn"
    /\ pc = "done"
    /\ Len(calls) = 3
    /\ calls[1] = [ok |-> FALSE, val |-> 0, err |-> NoErr]
    /\ calls[2].val = 1
    /\ calls[2].err # NoErr
    /\ out.val = 2
----------------------------------------------------------------------------
(* The properties of WaitForFiles (checked under FilesSpec).               *)

\* C11: WaitForFiles called with no paths returns the error "no files
\* specified", never success, and calls neither the probe nor fileExists.
C11_NoFilesIsUsageError ==
    (form = "WaitForFiles" /\ files = <<>> /\ pc # "filesStart") =>
        /\ pc = "done"
        /\ ret = "usage"
        /\ out.err = <<Layer("no files specified", 0)>>
        /\ started = 0
        /\ calls = <<>>
        /\ seenHist = <<>>
        /\ timer = "none"

C11_Witness ==
    /\ form = "WaitForFiles"
    /\ files = <<>>
    /\ pc = "done"
    /\ out.err # NoErr

\* C12: FilesExist answers true exactly when it found every given path to
\* exist, and WaitForFiles with some paths returns success only when its
\* last attempt did: paths found in different attempts do not add up.
C12_AllInOneAttempt ==
    (form = "WaitForFiles" /\ files # <<>>) =>
        /\ Len(seenHist) = Len(calls)
        /\ \A i \in 1..Len(calls) : calls[i].ok <=> seenHist[i] = FileSet
        /\ (pc = "done" /\ out.err = NoErr) =>
              /\ calls # <<>>
              /\ seenHist[Len(seenHist)] = FileSet
        /\ (pc = "done" /\ \A i \in 1..Len(calls) : seenHist[i] # FileSet) =>
              out.err # NoErr

C12_Witness ==
    /\ form = "WaitForFiles"
    /\ Len(files) = 2
    /\ pc = "done"
    /\ ret = "exhausted"
    /\ Len(seenHist) >= 2
    /\ seenHist[1] = {files[1]}
    /\ fs = {files[2]}
----------------------------------------------------------------------------
(* MarshalJSON and UnmarshalJSON.  A Go string is a sequence of bytes; the *)
(* JSON text is a sequence of characters.  encoding/json writes a string   *)
(* between double quotes, escapes the double quote and the backslash, and  *)
(* writes the escape of U+FFFD for every byte that is not valid UTF-8;     *)
(* reading, it undoes the escapes, that one giving the bytes of U+FFFD.    *)

Quote == "\""

Backslash == "\\"

\* a byte that no UTF-8 sequence contains
BadByte == "xFF"

\* the UTF-8 encoding of U+FFFD
ReplacementChar == <<"xEF", "xBF", "xBD">>

JsonBytes == {"t", Quote, Backslash, BadByte}

JsonEscape(b) ==
    IF b = Quote THEN <<Backslash, Quote>>
    ELSE IF b = Backslash THEN <<Backslash, Backslash>>
    ELSE IF b = BadByte THEN <<Backslash, "u", "f", "f", "f", "d">>
    ELSE <<b>>

RECURSIVE JsonEscapeAll(_)
JsonEscapeAll(str) ==
    IF str = <<>> THEN <<>>
    ELSE JsonEscape(Head(str)) \o JsonEscapeAll(Tail(str))

\* json.Marshal of a string
JsonMarshal(str) == <<Quote>> \o JsonEscapeAll(str) \o <<Quote>>

JsonCons(bytes, r) == IF r.err THEN r ELSE [err |-> FALSE, str |-> bytes \o r.str]

JsonSyntaxError == [err |-> TRUE, str |-> <<>>]

RECURSIVE JsonUnquote(_)
JsonUnquote(body) ==
    IF body = <<>> THEN [err |-> FALSE, str |-> <<>>]
    ELSE IF Head(body) = Backslash THEN
        IF Len(body) < 2 THEN JsonSyntaxError
        ELSE IF body[2] \in {Quote, Backslash}
            THEN JsonCons(<<body[2]>>, JsonUnquote(SubSeq(body, 3, Len(body))))
        ELSE IF Len(body) >= 6 /\ SubSeq(body, 2, 6) = <<"u", "f", "f", "f", "d">>
            THEN JsonCons(ReplacementChar, JsonUnquote(SubSeq(body, 7, Len(body))))
        ELSE JsonSyntaxError
    ELSE IF Head(body) = Quote THEN JsonSyntaxError
    ELSE IF Head(body) = BadByte
        THEN JsonCons(ReplacementChar, JsonUnquote(Tail(body)))
    ELSE JsonCons(<<Head(body)>>, JsonUnquote(Tail(body)))

\* json.Unmarshal into a string
JsonUnmarshal(data) ==
    IF Len(data) >= 2 /\ data[1] = Quote /\ data[Len(data)] = Quote
    THEN JsonUnquote(SubSeq(data, 2, Len(data) - 1))
    ELSE JsonSyntaxError

MarshalJSON(m) == JsonMarshal(m.str)

UnmarshalJSON(m, data) ==
    LET r == JsonUnmarshal(data)
    IN  IF r.err THEN [err |-> TRUE, m |-> m]
        ELSE [err |-> FALSE, m |-> [m EXCEPT !.str = r.str]]

\* the configurations of the marshalled values
JsonConfigs ==
    {ZeroConfig,
     [ZeroConfig EXCEPT !.PrefixCount = 1, !.SuffixCount = 1, !.Mask = <<"X">>]}

\* the values UnmarshalJSON is called on
JsonTargets ==
    {ZeroMaskedString,
     [str |-> <<"t">>, cfg |-> [ZeroConfig EXCEPT !.PrefixCount = 1]]}

\* input that MarshalJSON does not produce: not a JSON string
NotAString == <<"t">>

JsonInit ==
    /\ \E s \in StringsOf(JsonBytes, MaxLen) :
          \/ \E l \in MaskedStringLengths(Len(s)) : ms = NewMaskedString(s, l)
          \/ \E c \in JsonConfigs : ms = [str |-> s, cfg |-> c]
    /\ shown = NotShown
    /\ wire = NoWire
    /\ back = NoBack
    /\ OtherIdle
    /\ form = "none"
    /\ maxTriesArg = 0
    /\ maxTries = 0
    /\ tries = 0
    /\ pc = "masked"
    /\ timer = "none"
    /\ ctxErr = NoErr
    /\ calls = <<>>
    /\ started = 0
    /\ result = 0
    /\ waits = 0
    /\ ret = "none"
    /\ retErr = NoErr
    /\ out = [val |-> 0, err |-> NoErr]
    /\ cancelAt = [pc |-> "none", timer |-> "none", started |-> 0, more |-> FALSE]
    /\ files = <<>>
    /\ fs = {}
    /\ statIdx = 0
    /\ statFailed = FALSE
    /\ seenHist = <<>>

CallMarshalJSON ==
    /\ pc = "masked"
    /\ wire' = [done |-> TRUE, data |-> MarshalJSON(ms)]
    /\ UNCHANGED <<pollVars, fileVars, maskVars, back, otherVars>>

CallUnmarshalJSON ==
    /\ pc = "masked"
    /\ \E t \in JsonTargets :
       \E data \in {NotAString} \cup (IF wire.done THEN {wire.data} ELSE {}) :
          back' = [done |-> TRUE, target |-> t, data |-> data,
                   err |-> UnmarshalJSON(t, data).err,
                   m |-> UnmarshalJSON(t, data).m]
    /\ UNCHANGED <<pollVars, fileVars, maskVars, wire, otherVars>>

JsonNext == CallMarshalJSON \/ CallUnmarshalJSON \/ CallString

JsonSpec == JsonInit /\ [][JsonNext]_vars

----------------------------------------------------------------------------
(* SaveStructToFile and LoadStructFromFile on one path.  The content of a  *)
(* file is a sequence of characters; the struct is the TestConfig of the   *)
(* tests, a Name and a Value.                                              *)

Paths ==
    {<<>>, <<"config", ".json">>, <<"config", ".yaml">>, <<"config", ".yml">>,
     <<"config", ".txt">>}

\* strings.HasSuffix(path, suffix), the path given by its stem and extension
HasSuffix(p, suffix) == p # <<>> /\ p[Len(p)] = suffix

\* encoderFuncFromFilePath and decoderFuncFromFilePath: which codec, if any
CodecFromFilePath(p) ==
    IF HasSuffix(p, ".yaml") \/ HasSuffix(p, ".yml") THEN "yaml"
    ELSE IF HasSuffix(p, ".json") THEN "json"
    ELSE "nil"

\* TestConfig
Structs == [Name : StringsOf({"a", "b"}, MaxNameLen), Value : {0, 12}]

\* var data T
ZeroStruct == [Name |-> <<>>, Value |-> 0]

\* a check that lets the zero value through
IsZeroValueNever(v) == FALSE

\* generics.IsZeroValue(data)
IsZeroValue(v) == v = ZeroStruct

DigitChars == <<"0", "1", "2", "3", "4", "5", "6", "7", "8", "9">>

\* the decimal writing of an int
RECURSIVE Itoa(_)
Itoa(n) ==
    IF n < 10 THEN <<DigitChars[n + 1]>>
    ELSE Itoa(n \div 10) \o <<DigitChars[(n % 10) + 1]>>

IsDigit(c) == \E i \in 1..10 : DigitChars[i] = c

DigitValue(c) == (CHOOSE i \in 1..10 : DigitChars[i] = c) - 1

\* the reading of a decimal writing
RECURSIVE Atoi(_)
Atoi(d) ==
    IF Len(d) = 1 THEN DigitValue(d[1])
    ELSE 10 * Atoi(SubSeq(d, 1, Len(d) - 1)) + DigitValue(d[Len(d)])

\* the index of the first character from i on that is not a digit
RECURSIVE DigitsEnd(_, _)
DigitsEnd(c, i) ==
    IF i > Len(c) THEN i
    ELSE IF IsDigit(c[i]) THEN DigitsEnd(c, i + 1)
    ELSE i

\* the index of the double quote that closes a JSON string whose body
\* starts at i, 0 if there is none
RECURSIVE JsonStringEnd(_, _)
JsonStringEnd(c, i) ==
    IF i > Len(c) THEN 0
    ELSE IF c[i] = Backslash THEN JsonStringEnd(c, i + 2)
    ELSE IF c[i] = Quote THEN i
    ELSE JsonStringEnd(c, i + 1)

\* json.NewEncoder(w).Encode(v)
JsonEncode(v) ==
    <<"{", "\"name\":">> \o JsonMarshal(v.Name) \o <<",", "\"value\":">>
        \o Itoa(v.Value) \o <<"}", "\n">>

\* a decoder's failure
DecodeError == [err |-> TRUE, v |-> ZeroStruct]

\* json.NewDecoder(r).Decode(&data): the first value of the stream is
\* read, what follows it is not looked at
JsonDecode(c) ==
    IF Len(c) < 3 \/ c[1] # "{" \/ c[2] # "\"name\":" \/ c[3] # Quote THEN DecodeError
    ELSE LET e == JsonStringEnd(c, 4)
             d == DigitsEnd(c, e + 3)
         IN  IF e = 0 \/ JsonUnmarshal(SubSeq(c, 3, e)).err THEN DecodeError
             ELSE IF Len(c) < e + 4 \/ c[e + 1] # "," \/ c[e + 2] # "\"value\":"
                 THEN DecodeError
             ELSE IF d = e + 3 \/ d > Len(c) \/ c[d] # "}" THEN DecodeError
             ELSE [err |-> FALSE,
                   v |-> [Name |-> JsonUnmarshal(SubSeq(c, 3, e)).str,
                          Value |-> Atoi(SubSeq(c, e + 3, d - 1))]]

\* a string scalar as yaml writes it: plain, or "" for the empty string
YamlScalar(str) == IF str = <<>> THEN <<Quote, Quote>> ELSE str

\* yaml.NewEncoder(w).Encode(v)
YamlEncode(v) ==
    <<"name:", " ">> \o YamlScalar(v.Name) \o <<"\n", "value:", " ">>
        \o Itoa(v.Value) \o <<"\n">>

\* the index of the first line end from i on, 0 if there is none
RECURSIVE LineEnd(_, _)
LineEnd(c, i) ==
    IF i > Len(c) THEN 0
    ELSE IF c[i] = "\n" THEN i
    ELSE LineEnd(c, i + 1)

\* a plain scalar of the letters of a Name
IsPlain(str) == str # <<>> /\ \A i \in 1..Len(str) : str[i] \in {"a", "b"}

\* yaml.NewDecoder(r).Decode(&data): the whole document is read, and
\* nothing but blank lines may follow the two fields
YamlDecode(c) ==
    IF Len(c) < 2 \/ c[1] # "name:" \/ c[2] # " " THEN DecodeError
    ELSE LET e == LineEnd(c, 3)
             name == SubSeq(c, 3, e - 1)
             d == DigitsEnd(c, e + 3)
         IN  IF e = 0 \/ ~(name = <<Quote, Quote>> \/ IsPlain(name)) THEN DecodeError
             ELSE IF Len(c) < e + 3 \/ c[e + 1] # "value:" \/ c[e + 2] # " "
                 THEN DecodeError
             ELSE IF d = e + 3 \/ d > Len(c) THEN DecodeError
             ELSE IF \E i \in d..Len(c) : c[i] # "\n" THEN DecodeError
             ELSE [err |-> FALSE,
                   v |-> [Name |-> IF name = <<Quote, Quote>> THEN <<>> ELSE name,
                          Value |-> Atoi(SubSeq(c, e + 3, d - 1))]]

\* saveStructToWriterWithEncoder: what is written
Encode(codec, v) == IF codec = "yaml" THEN YamlEncode(v) ELSE JsonEncode(v)

Decode(codec, c) == IF codec = "yaml" THEN YamlDecode(c) ELSE JsonDecode(c)

\* loadStructFromReaderWithDecoder: "" for success, or the error
loadStructFromReaderWithDecoder(codec, c) ==
    LET r == Decode(codec, c)
    IN  IF c = <<>> \/ r.err THEN [err |-> "decode", v |-> ZeroStruct]
        ELSE IF IsZeroValue(r.v) THEN [err |-> "zero", v |-> ZeroStruct]
        ELSE [err |-> "", v |-> r.v]

\* os.OpenFile without O_TRUNC: the content stays
OpenedNoTrunc(d) == IF d.exists THEN d.data ELSE <<>>

\* os.OpenFile(path, os.O_RDWR|os.O_CREATE|os.O_TRUNC, 0600): the content
\* of the file once open
Opened(d) == <<>>

\* a write of data at offset 0 of a file that holds old
WriteAt0(old, data) == data \o SubSeq(old, Len(data) + 1, Len(old))

\* content of a file that was there before the first save
Garbage == [i \in 1..16 |-> "#"]

\* what the operating system may refuse
SaveFailures == {"", "mkdir", "open", "write", "close"}

LoadFailures == {"", "open", "close"}

StoreInit ==
    /\ path \in Paths
    /\ disk \in {NoFile, [exists |-> TRUE, data |-> Garbage]}
    /\ saved = NoneSaved
    /\ io = NoIo
    /\ PollIdle("store")
    /\ FilesIdle
    /\ MaskIdle
    /\ JsonIdle
    /\ LengthIdle
    /\ EnvIdle

\* SaveStructToFile(v, path); fail is the step the operating system refuses
CallSaveStructToFile ==
    /\ pc = "store"
    /\ \E v \in Structs, fail \in SaveFailures :
         LET codec == CodecFromFilePath(path)
             open == Opened(disk)
             data == Encode(codec, v)
             part == SubSeq(data, 1, Len(data) \div 2)
             err == IF path = <<>> THEN "empty path"
                    ELSE IF codec = "nil" THEN "unsupported"
                    ELSE fail
         IN  /\ io' = [op |-> "save", v |-> v, err |-> err, fail |-> fail]
             /\ disk' = IF err \in {"empty path", "unsupported", "mkdir", "open"}
                          THEN disk
                        ELSE IF err = "write"
                          THEN [exists |-> TRUE, data |-> WriteAt0(open, part)]
                        ELSE [exists |-> TRUE, data |-> WriteAt0(open, data)]
             /\ saved' = IF err = ""
                           THEN [any |-> TRUE, v |-> v,
                                 shrunk |-> disk.exists /\ Len(data) < Len(disk.data)]
                         ELSE IF err \in {"write", "close"} THEN NoneSaved
                         ELSE saved
    /\ UNCHANGED <<path, pollVars, fileVars, maskVars, jsonVars, lengthVars, envVars>>

\* LoadStructFromFile(path)
CallLoadStructFromFile ==
    /\ pc = "store"
    /\ \E fail \in LoadFailures :
         LET codec == CodecFromFilePath(path)
             r == loadStructFromReaderWithDecoder(codec, disk.data)
             err == IF path = <<>> THEN "empty path"
                    ELSE IF codec = "nil" THEN "unsupported"
                    ELSE IF ~disk.exists \/ fail = "open" THEN "open"
                    ELSE IF r.err # "" THEN r.err
                    ELSE fail
         IN  io' = [op |-> "load", v |-> IF err = "" THEN r.v ELSE ZeroStruct,
                    err |-> err, fail |-> fail]
    /\ UNCHANGED <<path, disk, saved, pollVars, fileVars, maskVars, jsonVars,
                   lengthVars, envVars>>

StoreNext == CallSaveStructToFile \/ CallLoadStructFromFile

StoreSpec == StoreInit /\ [][StoreNext]_vars

----------------------------------------------------------------------------
(* The properties of MaskedString (checked under MaskSpec).                *)

\* the number of bytes of the underlying string in what String() returned
Revealed ==
    IF shown.called /\ ~shown.panic THEN shown.prefixCount + shown.suffixCount ELSE 0

\* the bytes of the mask in use
MaskBytes == {MaskChar(ms.cfg.Mask)[i] : i \in 1..Len(MaskChar(ms.cfg.Mask))}

\* what String() returned consists of mask bytes only
OnlyMask == \A i \in 1..Len(shown.str) : shown.str[i] \in MaskBytes

\* C13 as stated: String() reveals strictly fewer bytes than the underlying
\* string has, and nothing at all when the PrefixCount and SuffixCount of
\* the Config add up to its length or more.
C13_RevealsLessThanAll ==
    shown.called =>
        /\ Revealed < Len(ms.str)
        /\ ms.cfg.PrefixCount + ms.cfg.SuffixCount >= Len(ms.str) =>
              (Revealed = 0 /\ OnlyMask)

\* C13, amended: String() never reveals all of a non-empty string and
\* reveals nothing of an empty one; when the two counts, each reset to 0
\* if above the effective length, add up to the true length or more,
\* nothing is revealed and what is returned consists of mask bytes only.
C13_NeverRevealsAll ==
    shown.called =>
        /\ Len(ms.str) > 0 => Revealed < Len(ms.str)
        /\ Len(ms.str) = 0 => Revealed = 0
        /\ Clamp(ms.cfg.PrefixCount, EffectiveLength(ms))
             + Clamp(ms.cfg.SuffixCount, EffectiveLength(ms)) >= Len(ms.str) =>
              /\ ~shown.panic
              /\ Revealed = 0
              /\ OnlyMask
        /\ ~shown.panic =>
              /\ SubSeq(shown.str, 1, shown.prefixCount) = SubSeq(ms.str, 1, shown.prefixCount)
              /\ Len(shown.str) >= Revealed
              /\ \A i \in (shown.prefixCount + 1)..(Len(shown.str) - shown.suffixCount) :
                    shown.str[i] \in MaskBytes

C13_Witness ==
    /\ shown.called
    /\ ms.str = <<"t", "e", "t">>
    /\ ~ms.cfg.ObfuscateLength
    /\ ms.cfg.PrefixCount = 2
    /\ ms.cfg.SuffixCount = 1
    /\ ms.cfg.MinMask = 0
    /\ shown.str = <<"*", "*", "*">>

\* C14: when MinMask > 0 and the effective length less the prefix and
\* suffix counts (as validated against the effective length) is below
\* MinMask, String() returns mask bytes only, no prefix and no suffix.
C14_MinMaskSuppresses ==
    (/\ shown.called
     /\ ms.cfg.MinMask > 0
     /\ EffectiveLength(ms) - (Clamp(ms.cfg.PrefixCount, EffectiveLength(ms))
                               + Clamp(ms.cfg.SuffixCount, EffectiveLength(ms)))
          < ms.cfg.MinMask) =>
        /\ ~shown.panic
        /\ shown.prefixCount = 0
        /\ shown.suffixCount = 0
        /\ OnlyMask

\* the string C15 describes: p bytes of str, k copies of mask, s bytes of str
Masked(str, p, s, mask) ==
    LET k == Len(str) - p - s
        w == k * Len(mask)
    IN  [i \in 1..(p + w + s) |->
            IF i <= p THEN str[i]
            ELSE IF i <= p + w THEN mask[((i - p - 1) % Len(mask)) + 1]
            ELSE str[Len(str) - s + (i - p - w)]]

\* C15: without length obfuscation, with PrefixCount p and SuffixCount s,
\* p + s below the length, and MinMask 0 or at most the length less p + s,
\* String() returns the first p bytes, then length - p - s copies of the
\* mask ("*" for an unset Mask), then the last s bytes.
C15_PrefixMaskSuffix ==
    (/\ shown.called
     /\ ~ms.cfg.ObfuscateLength
     /\ ms.cfg.PrefixCount + ms.cfg.SuffixCount < Len(ms.str)
     /\ \/ ms.cfg.MinMask = 0
        \/ ms.cfg.MinMask <= Len(ms.str) - ms.cfg.PrefixCount - ms.cfg.SuffixCount) =>
        /\ ~shown.panic
        /\ shown.str = Masked(ms.str, ms.cfg.PrefixCount, ms.cfg.SuffixCount,
                              IF ms.cfg.Mask = <<>> THEN <<"*">> ELSE ms.cfg.Mask)

C15_Witness ==
    /\ shown.called
    /\ ms.str = <<"t", "e", "e">>
    /\ ms.cfg = [ZeroConfig EXCEPT !.PrefixCount = 1, !.SuffixCount = 1, !.Mask = <<"X">>]
    /\ shown.str = <<"t", "X", "e">>

\* the Config is one that NewMaskedString gives to the underlying string
IsDefaultConfig ==
    \E l \in MaskedStringLengths(Len(ms.str)) : ms = NewMaskedString(ms.str, l)

\* C16: under the Config that NewMaskedString builds, String() returns
\* ObfuscatedLength times "*", and no Config replacement and no String()
\* call changes what UnmaskedString() returns.
C16_DefaultAllMask ==
    /\ [](shown.called /\ IsDefaultConfig =>
            /\ ~shown.panic
            /\ Len(shown.str) = ms.cfg.ObfuscatedLength
            /\ \A i \in 1..Len(shown.str) : shown.str[i] = "*")
    /\ [][UnmaskedString(ms') = UnmaskedString(ms)]_vars

C16_Witness ==
    /\ shown.called
    /\ IsDefaultConfig
    /\ ms.str = <<"t", "e", "t">>
    /\ ms.cfg.ObfuscatedLength = 2
    /\ shown.str = <<"*", "*">>

\* C17: with ObfuscateLength set and a mask of one byte, String() returns
\* exactly ObfuscatedLength bytes, whatever the true length and the
\* counts, its revealed prefix and suffix being those of the true string.
C17_ObfuscatedWidth ==
    (shown.called /\ ms.cfg.ObfuscateLength /\ Len(MaskChar(ms.cfg.Mask)) = 1) =>
        /\ ~shown.panic
        /\ Len(shown.str) = ms.cfg.ObfuscatedLength
        /\ SubSeq(shown.str, 1, shown.prefixCount) = SubSeq(ms.str, 1, shown.prefixCount)
        /\ SubSeq(shown.str, Len(shown.str) - shown.suffixCount + 1, Len(shown.str))
             = SubSeq(ms.str, Len(ms.str) - shown.suffixCount + 1, Len(ms.str))

C19_JsonRoundTrip ==
    /\ wire.done => JsonUnmarshal(wire.data) = [err |-> FALSE, str |-> UnmaskedString(ms)]
    /\ (back.done /\ wire.done /\ back.data = wire.data) =>
            /\ ~back.err
            /\ UnmaskedString(back.m) = UnmaskedString(ms)
            /\ back.m.cfg = back.target.cfg

\* C20: the width NewMaskedString picks does not depend on the length of
\* the secret: a width picked for this string can be picked for a string
\* of any other length.
C20_WidthIndependentOfLength ==
    IsDefaultConfig =>
        \A n \in 0..MaxLen : ms.cfg.ObfuscatedLength \in MaskedStringLengths(n)
----------------------------------------------------------------------------
(* The properties of lookupEnvBool (checked under EnvSpec).                *)

\* C21: lookupEnvBool returns true, and no error, for a variable set to
\* "true", "TRUE" or "1"; it does not return true for a variable that is
\* not set (an error is returned) nor for one set to a value that is not
\* a boolean, such as "asdf" (an error is returned).
C21_LookupEnvBool ==
    looked.done =>
        /\ looked.seen \in {"true", "TRUE", "1"} => (looked.val /\ ~looked.err)
        /\ looked.seen = Unset => (~looked.val /\ looked.err)
        /\ looked.seen \in {"asdf", "tRuE", ""} => (~looked.val /\ looked.err)

C21_Witness ==
    /\ looked.done
    /\ looked.key = "TEST_KEY"
    /\ looked.seen = "1"
    /\ looked.val
    /\ env["TEST_NO_KEY"] = "asdf"

C21_WitnessNotSet ==
    /\ looked.done
    /\ looked.key = "TEST_KEY"
    /\ looked.seen = Unset
    /\ ~looked.val
    /\ env["TEST_NO_KEY"] = "asdf"

\* C23: the count of mask bytes String() computes from the final counts
\* is never negative, so that String() always returns a string.
C23_PaddingNeverNegative ==
    shown.called =>
        /\ ToInt(shown.paddingCount) >= 0
        /\ ~shown.panic

----------------------------------------------------------------------------
(* Further properties of the poll.                                         *)

\* C24: once a poll has returned, by whatever return statement, no timer
\* it created is armed (nor holds an unreceived expiry).
C24_NoTimerLeftArmed ==
    pc = "done" => timer \in {"none", "stopped"}

C24_Witness ==
    /\ pc = "done"
    /\ ret = "canceled"
    /\ timer = "stopped"
    /\ cancelAt.timer = "armed"

C24_WitnessSuccess ==
    /\ pc = "done"
    /\ ret = "success"
    /\ Len(calls) = 2
    /\ timer = "stopped"

C24_WitnessExhausted ==
    /\ pc = "done"
    /\ ret = "exhausted"
    /\ timer = "stopped"

C24_WitnessConditionError ==
    /\ pc = "done"
    /\ ret = "conditionError"
    /\ Len(calls) = 2
    /\ timer = "stopped"

\* the probe's raw result r means success for the form f
ReportsSuccess(f, r) ==
    CASE f = "waitUntil"       -> r.ok /\ r.err = NoErr
      [] f = "WaitFor"         -> r.ok
      [] f = "WaitForNilError" -> r.err = NoErr
      [] f = "WaitForReturn"   -> r.err = NoErr /\ r.val # 0
      [] OTHER                 -> FALSE

\* the invocation that was due or running when the context became done
AroundInvocation ==
    IF cancelAt.pc = "inProbe" THEN cancelAt.started ELSE cancelAt.started + 1

\* C25: when the context is done at the call of the poll, or becomes done
\* right before or during a probe invocation, the poll does not return
\* before that invocation has completed, and returns success if the
\* invocation reported success.
C25_CancelNotSeenAroundProbe ==
    (cancelAt.pc \in {"start", "probe", "inProbe"} /\ pc = "done") =>
        /\ Len(calls) >= AroundInvocation
        /\ ReportsSuccess(form, calls[AroundInvocation]) =>
              /\ ret = "success"
              /\ out.err = NoErr

C25_Witness ==
    /\ pc = "done"
    /\ form = "WaitFor"
    /\ cancelAt.pc = "inProbe"
    /\ cancelAt.started = 2
    /\ calls[2].ok
    /\ ret = "success"

C25_WitnessAtCall ==
    /\ pc = "done"
    /\ cancelAt.pc = "start"
    /\ ret = "success"
    /\ Len(calls) = 1

\* C28: an exhausted poll made exactly maxTries - 1 interval waits, none
\* after the final attempt, and a context that becomes done after the
\* final attempt has completed leaves the exhaustion error in place.
C28_NoWaitAfterLastAttempt ==
    /\ (pc = "done" /\ ret = "exhausted") =>
          /\ waits = EffMax - 1
          /\ Len(calls) = EffMax
    /\ (pc = "done" /\ cancelAt.pc = "loop" /\ cancelAt.started = EffMax
          /\ Len(calls) = EffMax) =>
          /\ ret = "exhausted"
          /\ retErr = <<Layer("condition not met after %d tries", EffMax)>>
          /\ waits = EffMax - 1

C28_Witness ==
    /\ pc = "done"
    /\ ret = "exhausted"
    /\ maxTriesArg = 3
    /\ waits = 2
    /\ ctxErr # NoErr
    /\ cancelAt.pc = "loop"
    /\ cancelAt.started = 3

\* C29: a poll called with maxTries 0 or 1 never returns the cancellation
\* error; with a context done at the call and a failing attempt it
\* returns "condition not met after 1 tries".
C29_SingleTryNeverCanceled ==
    (pc = "done" /\ maxTriesArg <= 1) =>
        /\ ret # "canceled"
        /\ \A reason \in CtxReasons : ~ErrorsIs(out.err, reason)
        /\ NeverMet =>
              /\ ret = "exhausted"
              /\ retErr = <<Layer("condition not met after %d tries", 1)>>

C29_Witness ==
    /\ pc = "done"
    /\ maxTriesArg = 0
    /\ cancelAt.pc = "start"
    /\ ctxErr # NoErr
    /\ NeverMet
    /\ ret = "exhausted"

----------------------------------------------------------------------------
(* Further properties of MaskedString.                                     *)

FloorBound(n) == IF (3 * n) \div 2 = 0 THEN 8 ELSE (3 * n) \div 2

F32Exact(n) == 3 * n < 16777216

C27_WitnessLong ==
    /\ made.done
    /\ lenS = 5592405
    /\ made.cfg.ObfuscatedLength = 8388606
----------------------------------------------------------------------------
(* The properties of SaveStructToFile and LoadStructFromFile (checked      *)
(* under StoreSpec).                                                       *)

\* a load that the operating system let through, after a successful save
\* that no failed save followed
LoadedAfterSave == io.op = "load" /\ io.fail = "" /\ saved.any

C22_WitnessJson ==
    /\ LoadedAfterSave
    /\ path = <<"config", ".json">>
    /\ saved.v = [Name |-> <<"a">>, Value |-> 0]
    /\ io.v = saved.v

C22_WitnessZero ==
    /\ LoadedAfterSave
    /\ path = <<"config", ".yaml">>
    /\ saved.v = ZeroStruct
    /\ io.err = "zero"

====
